---- MODULE Spec2Model ----
(***************************************************************************)
(* The GML bytecode virtual machine of GameMaker-Cpp: the Value model      *)
(* (VM_Value.cpp), the instruction record (VM_Instruction.h) and the       *)
(* executor (VM_Executor.h / VM_Executor.cpp).                             *)
(*                                                                         *)
(* Representation choices.                                                 *)
(*  - A double is an exact rational [n, d] in lowest terms with d > 0, or  *)
(*    NaN, written [n |-> 0, d |-> 0] (std::fmod(x, 0) produces it).       *)
(*    Infinities and rounding are outside the value ranges explored.       *)
(*  - A std::string is a sequence of one-character strings over Chars.     *)
(*    The alphabet holds no 'e', 'x', 'i' or 'n', so std::stod never sees  *)
(*    an exponent, a hexadecimal literal, "inf" or "nan".                  *)
(*  - The size_t instructionPointer_ is kept as its signed residue: -1     *)
(*    stands for SIZE_MAX, the value "jumpTarget - 1" takes for target 0.  *)
(*    Incrementing -1 gives 0, as the unsigned wrap-around does.           *)
(*  - The native C++ call stack (the nested Execute invocations) is the    *)
(*    sequence execStack; the VM's own callStack_ is callStack.            *)
(*  - A bitwise operation whose behaviour the language leaves undefined    *)
(*    (int64_t conversion of NaN, a shift count outside 0..63, a left      *)
(*    shift of a negative number) pushes any Number of Nums.               *)
(***************************************************************************)
EXTENDS Integers, Sequences, FiniteSets, TLC

(***************************************************************************)
(* Doubles                                                                 *)
(***************************************************************************)
Abs(x) == IF x < 0 THEN -x ELSE x

RECURSIVE GCD(_, _)
GCD(a, b) == IF b = 0 THEN a ELSE GCD(b, a % b)

NaN == [n |-> 0, d |-> 0]

IsNaN(r) == r.d = 0

\* n / d in lowest terms, d # 0
MkReal(n, d) ==
    LET g == GCD(Abs(n), Abs(d))
        s == IF d < 0 THEN -1 ELSE 1
    IN  [n |-> s * (n \div g), d |-> s * (d \div g)]

IntReal(k) == [n |-> k, d |-> 1]

Zero == IntReal(0)

One == IntReal(1)

RealIsZero(r) == ~IsNaN(r) /\ r.n = 0

RealEq(a, b) == ~IsNaN(a) /\ ~IsNaN(b) /\ a.n * b.d = b.n * a.d

RealLess(a, b) == ~IsNaN(a) /\ ~IsNaN(b) /\ a.n * b.d < b.n * a.d

RealAdd(a, b) ==
    IF IsNaN(a) \/ IsNaN(b) THEN NaN ELSE MkReal(a.n * b.d + b.n * a.d, a.d * b.d)

RealNeg(a) == IF IsNaN(a) THEN NaN ELSE [n |-> -a.n, d |-> a.d]

RealSub(a, b) == RealAdd(a, RealNeg(b))

RealMul(a, b) ==
    IF IsNaN(a) \/ IsNaN(b) THEN NaN ELSE MkReal(a.n * b.n, a.d * b.d)

\* a / b for b # 0
RealQuot(a, b) ==
    IF IsNaN(a) \/ IsNaN(b) THEN NaN ELSE MkReal(a.n * b.d, a.d * b.n)

\* truncation towards zero of a finite double
RealTrunc(a) == IF a.n >= 0 THEN a.n \div a.d ELSE -((-a.n) \div a.d)

\* std::fmod: a - trunc(a / b) * b, NaN for b = 0
RealFmod(a, b) ==
    IF IsNaN(a) \/ IsNaN(b) \/ RealIsZero(b) THEN NaN
    ELSE RealSub(a, RealMul(IntReal(RealTrunc(RealQuot(a, b))), b))

(***************************************************************************)
(* Strings and std::stod                                                   *)
(***************************************************************************)
Digits == <<"0", "1", "2", "3", "4", "5", "6", "7", "8", "9">>

Chars == {Digits[i] : i \in 1..Len(Digits)} \cup {" ", "+", "-", ".", "a", "b"}

IsDigit(c) == \E i \in 1..Len(Digits) : Digits[i] = c

DigitVal(c) == (CHOOSE i \in 1..Len(Digits) : Digits[i] = c) - 1

\* the character's code, which std::string's operator< compares
CharCode(c) ==
    CASE c = " " -> 32
      [] c = "+" -> 43
      [] c = "-" -> 45
      [] c = "." -> 46
      [] c = "a" -> 97
      [] c = "b" -> 98
      [] OTHER -> 48 + DigitVal(c)

RECURSIVE StrLess(_, _)
StrLess(s, t) ==
    IF t = <<>> THEN FALSE
    ELSE IF s = <<>> THEN TRUE
    ELSE IF CharCode(Head(s)) # CharCode(Head(t))
         THEN CharCode(Head(s)) < CharCode(Head(t))
    ELSE StrLess(Tail(s), Tail(t))

RECURSIVE SkipSpace(_)
SkipSpace(s) == IF s # <<>> /\ Head(s) = " " THEN SkipSpace(Tail(s)) ELSE s

\* the run of digits s starts with: [val, cnt] and the rest of s
RECURSIVE DigitRun(_, _, _)
DigitRun(s, val, cnt) ==
    IF s # <<>> /\ IsDigit(Head(s))
    THEN DigitRun(Tail(s), 10 * val + DigitVal(Head(s)), cnt + 1)
    ELSE [val |-> val, cnt |-> cnt, rest |-> s]

RECURSIVE Pow10(_)
Pow10(k) == IF k = 0 THEN 1 ELSE 10 * Pow10(k - 1)

\* std::stod, after the sign, the integer digits ip and the fraction digits fp:
\* [ok, val]; ok = FALSE is std::invalid_argument (no digit at all)
StodValue(neg, ip, fp) ==
    IF ip.cnt + fp.cnt = 0 THEN [ok |-> FALSE, val |-> Zero]
    ELSE [ok |-> TRUE,
          val |-> MkReal((IF neg THEN -1 ELSE 1) * (ip.val * Pow10(fp.cnt) + fp.val),
                         Pow10(fp.cnt))]

StodFraction(neg, ip) ==
    IF ip.rest # <<>> /\ Head(ip.rest) = "."
    THEN StodValue(neg, ip, DigitRun(Tail(ip.rest), 0, 0))
    ELSE StodValue(neg, ip, [val |-> 0, cnt |-> 0, rest |-> ip.rest])

StodSign(s) ==
    IF s # <<>> /\ Head(s) \in {"+", "-"}
    THEN StodFraction(Head(s) = "-", DigitRun(Tail(s), 0, 0))
    ELSE StodFraction(FALSE, DigitRun(s, 0, 0))

\* std::stod(str): leading white space, an optional sign, digits with an
\* optional decimal point; what follows the number is ignored
Stod(str) == StodSign(SkipSpace(str))

\* try { return std::stod(...); } catch (...) { return 0.0; }
StodOrZero(r) == IF r.ok THEN r.val ELSE Zero

(***************************************************************************)
(* Value                                                                   *)
(***************************************************************************)
Undefined == [type |-> "UNDEFINED", real |-> Zero, str |-> <<>>, bool |-> FALSE]

Number(r) == [type |-> "REAL", real |-> r, str |-> <<>>, bool |-> FALSE]

String(s) == [type |-> "STRING", real |-> Zero, str |-> s, bool |-> FALSE]

Boolean(b) == [type |-> "BOOL", real |-> Zero, str |-> <<>>, bool |-> b]

Num(k) == Number(IntReal(k))

IsString(v) == v.type = "STRING"

AsReal(v) ==
    CASE v.type = "REAL" -> v.real
      [] v.type = "STRING" -> StodOrZero(Stod(v.str))
      [] v.type = "BOOL" -> IF v.bool THEN One ELSE Zero
      [] OTHER -> Zero

AsBoolNumeric(v) == ~RealIsZero(AsReal(v))

AsBool(v) ==
    CASE v.type = "REAL" -> ~RealIsZero(v.real)
      [] v.type = "STRING" -> v.str # <<>>
      [] v.type = "BOOL" -> v.bool
      [] OTHER -> FALSE

ValAddAsSub(a, b) == Number(RealSub(AsReal(a), AsReal(b)))

ValAddConcat(a, b) ==
    IF IsString(a) /\ IsString(b) THEN String(a.str \o b.str)
    ELSE Number(RealAdd(AsReal(a), AsReal(b)))

ValAdd(a, b) == Number(RealAdd(AsReal(a), AsReal(b)))

ValSub(a, b) == Number(RealSub(AsReal(a), AsReal(b)))

ValMul(a, b) == Number(RealMul(AsReal(a), AsReal(b)))

DivideByUnchecked(a, divisor) ==
    IF RealIsZero(divisor) THEN Number(AsReal(a))
    ELSE Number(RealQuot(AsReal(a), divisor))

\* double divisor = other.AsReal(); if (divisor == 0.0) return Value(0.0);
DivideBy(a, divisor) ==
    IF RealIsZero(divisor) THEN Number(Zero)
    ELSE Number(RealQuot(AsReal(a), divisor))

ValDiv(a, b) == DivideBy(a, AsReal(b))

ValMod(a, b) == Number(RealFmod(AsReal(a), AsReal(b)))

ValNeg(a) == Number(RealNeg(AsReal(a)))

ValEqOneSided(a, b) == ~RealLess(AsReal(a), AsReal(b))

ValEq(a, b) ==
    IF IsString(a) /\ IsString(b) THEN a.str = b.str
    ELSE RealEq(AsReal(a), AsReal(b))

ValNe(a, b) == ~ValEq(a, b)

ValLtOrEqual(a, b) == ~RealLess(AsReal(b), AsReal(a))

ValLt(a, b) ==
    IF IsString(a) /\ IsString(b) THEN StrLess(a.str, b.str)
    ELSE RealLess(AsReal(a), AsReal(b))

ValLe(a, b) == ValLt(a, b) \/ ValEq(a, b)

ValGt(a, b) == ~ValLe(a, b)

ValGe(a, b) == ~ValLt(a, b)

ValNot(a) == Boolean(~AsBool(a))

\* static_cast<int64_t>(double) of a finite double: truncation towards zero
ToInt64(r) == RealTrunc(r)

RECURSIVE BitAndNat(_, _)
BitAndNat(x, y) ==
    IF x = 0 \/ y = 0 THEN 0
    ELSE (x % 2) * (y % 2) + 2 * BitAndNat(x \div 2, y \div 2)

\* x & y on two's-complement integers (~x = -x - 1)
BitAnd(x, y) ==
    CASE x >= 0 /\ y >= 0 -> BitAndNat(x, y)
      [] x >= 0 /\ y < 0 -> x - BitAndNat(x, -y - 1)
      [] x < 0 /\ y >= 0 -> y - BitAndNat(y, -x - 1)
      [] OTHER -> -((-x - 1) + (-y - 1) - BitAndNat(-x - 1, -y - 1)) - 1

BitOr(x, y) == x + y - BitAnd(x, y)

BitXor(x, y) == x + y - 2 * BitAnd(x, y)

RECURSIVE Pow2(_)
Pow2(k) == IF k = 0 THEN 1 ELSE 2 * Pow2(k - 1)

ValBitAnd(a, b) == Num(BitAnd(ToInt64(AsReal(a)), ToInt64(AsReal(b))))

ValBitOr(a, b) == Num(BitOr(ToInt64(AsReal(a)), ToInt64(AsReal(b))))

ValBitXor(a, b) == Num(BitXor(ToInt64(AsReal(a)), ToInt64(AsReal(b))))

ValCom(a) == Num(-ToInt64(AsReal(a)) - 1)

\* x << k and x >> k for a shift count 0 <= k < 64 (any other count is undefined)
ValShl(a, b) == Num(ToInt64(AsReal(a)) * Pow2(ToInt64(AsReal(b))))

ValShr(a, b) == Num(ToInt64(AsReal(a)) \div Pow2(ToInt64(AsReal(b))))

(***************************************************************************)
(* Instructions and code blocks                                            *)
(***************************************************************************)
\* Instruction::jumpTarget's default: "no target"
NoTarget == -1

Instr(op, o1, s, t) ==
    [op |-> op, operand1 |-> o1, operand2 |-> Undefined, operandStr |-> s, jumpTarget |-> t]

\* Instruction(OpCode op)
I0(op) == Instr(op, Undefined, <<>>, NoTarget)

\* Instruction(op, o1, o2, s)
I1(op, o1) == Instr(op, o1, <<>>, NoTarget)

IS(op, s) == Instr(op, Undefined, s, NoTarget)

IJ(op, t) == Instr(op, Undefined, <<>>, t)

CodeBlock(name, instrs) == [name |-> name, instructions |-> instrs]

ExecutionFrameZero(name) ==
    [functionName |-> name, instructionPointer |-> 0, returnValue |-> Num(0)]

\* ExecutionFrame(name); locals is never written and is left out
ExecutionFrame(name) ==
    [functionName |-> name, instructionPointer |-> 0, returnValue |-> Undefined]

(***************************************************************************)
(* Operand stack                                                           *)
(***************************************************************************)
PopStackUndefined(stk) ==
    IF stk = <<>> THEN [val |-> Undefined, stack |-> <<>>]
    ELSE [val |-> stk[Len(stk)], stack |-> SubSeq(stk, 1, Len(stk) - 1)]

PopStack(stk) ==
    IF stk = <<>> THEN [val |-> Num(0), stack |-> <<>>]
    ELSE [val |-> stk[Len(stk)], stack |-> SubSeq(stk, 1, Len(stk) - 1)]

PushStackTwice(stk, v) == Append(Append(stk, v), v)

PushStack(stk, v) == Append(stk, v)

PeekStackUndefined(stk) == IF stk = <<>> THEN Undefined ELSE stk[Len(stk)]

PeekStack(stk) == IF stk = <<>> THEN Num(0) ELSE stk[Len(stk)]

\* Value(cond ? 1.0 : 0.0)
Flag(c) == IF c THEN Num(1) ELSE Num(0)

TestEq(a, b) == Flag(ValEq(a, b))

TestNe(a, b) == Flag(ValNe(a, b))

TestLt(a, b) == Flag(ValLt(a, b))

TestLe(a, b) == Flag(ValLe(a, b))

TestGt(a, b) == Flag(ValGt(a, b))

TestGe(a, b) == Flag(ValGe(a, b))

LogicalAnd(a, b) == Flag(AsBool(a) /\ AsBool(b))

LogicalOr(a, b) == Flag(AsBool(a) \/ AsBool(b))

JumpToTarget(t) == t

\* instructionPointer_ = instr.jumpTarget - 1;  (-1 is SIZE_MAX)
JumpTo(t) == t - 1

(***************************************************************************)
(* The executor                                                            *)
(***************************************************************************)
VARIABLES
    codeBlocks,          \* codeBlocks_: name -> CodeBlock
    stack,               \* stack_: the top is the last element
    callStack,           \* callStack_: the back is the last element
    globals,             \* globals_: name -> Value
    currentCode,         \* currentCode_: the name of the block pointed to, <<>> for nullptr
    instructionPointer,  \* instructionPointer_
    execStack,           \* the Execute invocations in progress, innermost last
    last,                \* history: the last operation or loop iteration, and
                         \* the Value ExecuteFunction returned when it is a return
    library,             \* the code blocks the host has to load (its compiled game)
    twin                 \* a second VirtualMachine, given the same calls, on which
                         \* the host also calls SetDebugOutput; NoTwin without one

vars ==
    <<codeBlocks, stack, callStack, globals, currentCode, instructionPointer,
      execStack, last, library, twin>>

\* the host has constructed one VirtualMachine only
NoTwin == <<>>

\* instructionPointer_ < code.instructions.size(), an unsigned comparison
InRangeInclusive(ip, code) == ip >= 0 /\ ip <= Len(code.instructions)

InRange(ip, code) == ip >= 0 /\ ip < Len(code.instructions)

\* code.instructions[instructionPointer_]
Fetch(ip, code) == code.instructions[ip + 1]

StoreGlobalAlone(glb, name, val) == [k \in {name} |-> val]

\* globals_[name] = val
StoreGlobal(glb, name, val) ==
    [k \in DOMAIN glb \cup {name} |-> IF k = name THEN val ELSE glb[k]]

\* if (instr.jumpTarget >= 0)
JumpTaken(instr) == instr.jumpTarget >= 0

\* if (cond.AsBool() && instr.jumpTarget >= 0)
BranchTrueTaken(cond, instr) == AsBool(cond) /\ instr.jumpTarget >= 0

BranchFalseOnTrue(cond, instr) == AsBool(cond) /\ instr.jumpTarget >= 0

\* if (!cond.AsBool() && instr.jumpTarget >= 0)
BranchFalseTaken(cond, instr) == ~AsBool(cond) /\ instr.jumpTarget >= 0

CallOfUnloadedPushes(stk, glb, ip) ==
    [stack |-> PushStack(stk, Num(0)), globals |-> glb, ip |-> ip, ret |-> <<>>]

\* the CALL case with an empty name, or with a name ExecuteFunction does not
\* find: the Value(0.0) it returns is dropped
CallOfUnloaded(stk, glb, ip) ==
    [stack |-> stk, globals |-> glb, ip |-> ip, ret |-> <<>>]

UnknownOpcodeStores(stk, glb, ip) ==
    [stack |-> stk, globals |-> StoreGlobal(glb, <<"x">>, PeekStack(stk)), ip |-> ip,
     ret |-> <<>>]

UnknownOpcodeDrops(stk, glb, ip) ==
    [stack |-> PopStack(stk).stack, globals |-> glb, ip |-> ip, ret |-> <<>>]

\* default: LogDebug("Unknown opcode: ..."); break;
UnknownOpcode(stk, glb, ip) ==
    [stack |-> stk, globals |-> glb, ip |-> ip, ret |-> <<>>]

\* One case of ExecuteInstruction's switch for every opcode but a CALL of a
\* loaded block: the operand stack, the globals, the instruction pointer and
\* the value RET stores in the frame, after the case has run.
ExecuteInstruction(instr, stk, glb, ip) ==
    LET op   == instr.op
        same == [stack |-> stk, globals |-> glb, ip |-> ip, ret |-> <<>>]
        push(v) == [same EXCEPT !.stack = PushStack(stk, v)]
        pop  == PopStack(stk)
        pop2 == PopStack(pop.stack)
        \* Value b = PopStack(); Value a = PopStack(); PushStack(a OP b);
        bin(Op(_, _)) ==
            [same EXCEPT !.stack = PushStack(pop2.stack, Op(pop2.val, pop.val))]
        \* Value a = PopStack(); PushStack(OP a);
        un(Op(_)) == [same EXCEPT !.stack = PushStack(pop.stack, Op(pop.val))]
        jump == [same EXCEPT !.ip = JumpTo(instr.jumpTarget)]
    IN  CASE op = "PUSH" -> push(instr.operand1)
          [] op = "PUSHI" -> push(Number(AsReal(instr.operand1)))
          [] op = "PUSHF" -> push(Number(AsReal(instr.operand1)))
          [] op = "PUSHS" -> push(String(instr.operandStr))
          [] op = "PUSHB" -> push(Boolean(~RealIsZero(AsReal(instr.operand1))))
          [] op = "PUSHU" -> push(Undefined)
          [] op = "POP" ->
                [same EXCEPT !.stack = pop.stack,
                             !.globals = IF instr.operandStr # <<>>
                                         THEN StoreGlobal(glb, instr.operandStr, pop.val)
                                         ELSE glb]
          [] op = "ADD" -> bin(ValAdd)
          [] op = "SUB" -> bin(ValSub)
          [] op = "MUL" -> bin(ValMul)
          [] op = "DIV" -> bin(ValDiv)
          [] op = "MOD" -> bin(ValMod)
          [] op = "NEG" -> un(ValNeg)
          [] op = "AND" -> bin(ValBitAnd)
          [] op = "OR" -> bin(ValBitOr)
          [] op = "XOR" -> bin(ValBitXor)
          [] op = "COM" -> un(ValCom)
          [] op = "SHL" -> bin(ValShl)
          [] op = "SHR" -> bin(ValShr)
          [] op = "TEQ" -> bin(TestEq)
          [] op = "TNE" -> bin(TestNe)
          [] op = "TLT" -> bin(TestLt)
          [] op = "TLE" -> bin(TestLe)
          [] op = "TGT" -> bin(TestGt)
          [] op = "TGE" -> bin(TestGe)
          [] op = "LAND" -> bin(LogicalAnd)
          [] op = "LOR" -> bin(LogicalOr)
          [] op = "NOT" -> un(ValNot)
          [] op = "JMP" -> IF JumpTaken(instr) THEN jump ELSE same
          [] op = "BT" ->
                IF BranchTrueTaken(pop.val, instr)
                THEN [jump EXCEPT !.stack = pop.stack]
                ELSE [same EXCEPT !.stack = pop.stack]
          [] op = "BF" ->
                IF BranchFalseTaken(pop.val, instr)
                THEN [jump EXCEPT !.stack = pop.stack]
                ELSE [same EXCEPT !.stack = pop.stack]
          [] op = "RET" -> [same EXCEPT !.stack = pop.stack, !.ret = <<pop.val>>]
          [] op = "CALL" -> CallOfUnloaded(stk, glb, ip)
          [] op = "NOP" -> same
          [] op = "DUP" -> push(PeekStack(stk))
          [] op = "DROP" -> [same EXCEPT !.stack = pop.stack]
          [] OTHER -> UnknownOpcode(stk, glb, ip)

\* "Check for early return": the test Execute makes after every dispatch
EarlyReturn(cs) ==
    cs # <<>> /\ ~RealIsZero(AsReal(cs[Len(cs)].returnValue))

\* callStack_.back().returnValue = ret
SetReturnValue(cs, ret) ==
    IF cs # <<>> /\ ret # <<>>
    THEN [cs EXCEPT ![Len(cs)].returnValue = ret[1]]
    ELSE cs

\* the most operands the stack holds, and the deepest nesting of calls, explored
MaxStack == 3

MaxDepth == 3

\* the largest |x| of the numeric operands explored
MaxNum == 2

Nums == {Num(k) : k \in -MaxNum..MaxNum}

Back(seq) == seq[Len(seq)]

PopBackNothing(seq) == seq

\* pop_back()
PopBack(seq) == SubSeq(seq, 1, Len(seq) - 1)

\* a new invocation of Execute: currentCode_ = &code; instructionPointer_ = 0;
\* idx is the index of instr, the instruction fetched last; ret1 records the
\* Value the first RET of the invocation popped (history)
Activation(name) == [code |-> name, pc |-> "loop", idx |-> 0, ret1 |-> <<>>]

\* history record; val is the Value an ExecuteFunction returned ("missing",
\* "return") or says whether a load met a name again ("add", "load"), and
\* first is the Value the first RET of a returning invocation popped
Event(kind, name, idx, val) ==
    [kind |-> kind, name |-> name, idx |-> idx, val |-> val, first |-> <<>>]

HostHasControl == execStack = <<>>

\* CALL with a name that ExecuteFunction finds in codeBlocks_
IsLoadedCall(instr) ==
    /\ instr.op = "CALL"
    /\ instr.operandStr # <<>>
    /\ instr.operandStr \in DOMAIN codeBlocks

UpsertKeepsOld(table, block) ==
    [k \in DOMAIN table \cup {block.name} |->
        IF k \in DOMAIN table THEN table[k] ELSE block]

\* codeBlocks_[block.name] = block
Upsert(table, block) ==
    [k \in DOMAIN table \cup {block.name} |-> IF k = block.name THEN block ELSE table[k]]

RECURSIVE UpsertAll(_, _)
UpsertAll(table, blocks) ==
    IF blocks = <<>> THEN table
    ELSE UpsertAll(Upsert(table, Head(blocks)), Tail(blocks))

\* the list holds two different blocks of one name
RepeatsName(blocks) ==
    \E i, j \in 1..Len(blocks) :
        i < j /\ blocks[i].name = blocks[j].name /\ blocks[i] # blocks[j]

AddCodeBlock(block) ==
    /\ HostHasControl
    /\ codeBlocks' = Upsert(codeBlocks, block)
    /\ last' = Event("add", block.name, 0, Boolean(block.name \in DOMAIN codeBlocks))
    /\ UNCHANGED <<stack, callStack, globals, currentCode, instructionPointer,
                   execStack, library>>

LoadCodeBlocks(blocks) ==
    /\ HostHasControl
    /\ codeBlocks' = UpsertAll(codeBlocks, blocks)
    /\ last' = Event("load", <<>>, Len(blocks), Boolean(RepeatsName(blocks)))
    /\ UNCHANGED <<stack, callStack, globals, currentCode, instructionPointer,
                   execStack, library>>

NotFoundUndefined == Undefined

\* return Value(0.0);  // Return 0 if function not found
NotFoundResult == Num(0)

\* a lookup with codeBlocks_[functionName] in place of find()
ExecuteFunctionMissingInserts(name) ==
    /\ HostHasControl
    /\ name \notin DOMAIN codeBlocks
    /\ codeBlocks' = Upsert(codeBlocks, CodeBlock(name, <<>>))
    /\ last' = Event("missing", name, 0, NotFoundResult)
    /\ UNCHANGED <<stack, callStack, globals, currentCode,
                   instructionPointer, execStack, library>>

\* the host's ExecuteFunction(name), name not in codeBlocks_
ExecuteFunctionMissing(name) ==
    /\ HostHasControl
    /\ name \notin DOMAIN codeBlocks
    /\ last' = Event("missing", name, 0, NotFoundResult)
    /\ UNCHANGED <<codeBlocks, stack, callStack, globals, currentCode,
                   instructionPointer, execStack, library>>

\* the host's ExecuteFunction(name) up to the first test of Execute's loop
ExecuteFunctionEnter(name) ==
    /\ HostHasControl
    /\ name \in DOMAIN codeBlocks
    /\ callStack' = Append(callStack, ExecutionFrame(name))
    /\ execStack' = <<Activation(name)>>
    /\ currentCode' = name
    /\ instructionPointer' = 0
    /\ last' = Event("enter", name, 0, Undefined)
    /\ UNCHANGED <<codeBlocks, stack, globals, library>>

\* the instruction Execute's loop fetches next
CurInstr == Fetch(instructionPointer, codeBlocks[Back(execStack).code])

\* Execute's loop is at its test, and the test will pass
AtFetch ==
    /\ execStack # <<>>
    /\ Back(execStack).pc = "loop"
    /\ InRange(instructionPointer, codeBlocks[Back(execStack).code])

EndIterationRepeats(top, r, cs) ==
    /\ callStack' = cs
    /\ instructionPointer' = r.ip
    /\ execStack' =
          [execStack EXCEPT ![Len(execStack)] =
              [code |-> top.code,
               pc   |-> IF EarlyReturn(cs) THEN "done" ELSE "loop",
               idx  |-> instructionPointer,
               ret1 |-> IF top.ret1 = <<>> THEN r.ret ELSE top.ret1]]
    /\ last' = Event("dispatch", top.code, instructionPointer, Undefined)

\* the end of a loop iteration: break on an early return, else instructionPointer_++
EndIteration(top, r, cs) ==
    /\ callStack' = cs
    /\ instructionPointer' = IF EarlyReturn(cs) THEN r.ip ELSE r.ip + 1
    /\ execStack' =
          [execStack EXCEPT ![Len(execStack)] =
              [code |-> top.code,
               pc   |-> IF EarlyReturn(cs) THEN "done" ELSE "loop",
               idx  |-> instructionPointer,
               ret1 |-> IF top.ret1 = <<>> THEN r.ret ELSE top.ret1]]
    /\ last' = Event("dispatch", top.code, instructionPointer, Undefined)

\* the effects of ExecuteInstruction, r, on the VM
Executed(top, r) ==
    /\ Len(r.stack) <= MaxStack
    /\ stack' = r.stack
    /\ globals' = r.globals
    /\ EndIteration(top, r, SetReturnValue(callStack, r.ret))

\* a shift count the language defines: 0 <= k < 64
ShiftCountDefined(k) == 0 <= k /\ k < 64

\* static_cast<int64_t>(x) of the operands a and b is undefined for a NaN (the
\* finite doubles reached here all fit), and so is a shift by a count outside
\* 0..63 and, before C++20, a left shift of a negative number
IsUndefined(op, a, b) ==
    CASE op \in {"AND", "OR", "XOR"} -> IsNaN(AsReal(a)) \/ IsNaN(AsReal(b))
      [] op = "COM" -> IsNaN(AsReal(b))
      [] op = "SHR" ->
            \/ IsNaN(AsReal(a)) \/ IsNaN(AsReal(b))
            \/ ~ShiftCountDefined(ToInt64(AsReal(b)))
      [] op = "SHL" ->
            \/ IsNaN(AsReal(a)) \/ IsNaN(AsReal(b))
            \/ ~ShiftCountDefined(ToInt64(AsReal(b)))
            \/ ToInt64(AsReal(a)) < 0
      [] OTHER -> FALSE

\* what an undefined conversion or shift may leave in the int64_t result: any
\* number, and for a left shift of a negative number its C++20 value too
UndefinedResults(op, a, b) ==
    IF /\ op = "SHL"
       /\ ~IsNaN(AsReal(a)) /\ ~IsNaN(AsReal(b))
       /\ ShiftCountDefined(ToInt64(AsReal(b)))
    THEN Nums \cup {ValShl(a, b)}
    ELSE Nums

\* the results ExecuteInstruction can have: one, or with an undefined bitwise
\* operation any of those the build may produce
Outcomes(instr, stk, glb, ip) ==
    LET b == PopStack(stk)
        a == PopStack(b.stack)
        rest == IF instr.op = "COM" THEN b.stack ELSE a.stack
    IN  IF IsUndefined(instr.op, a.val, b.val)
        THEN {[stack |-> PushStack(rest, u), globals |-> glb, ip |-> ip, ret |-> <<>>] :
                 u \in UndefinedResults(instr.op, a.val, b.val)}
        ELSE {ExecuteInstruction(instr, stk, glb, ip)}

\* one iteration of Execute's loop whose instruction is no CALL of a loaded block
Dispatch ==
    /\ AtFetch
    /\ ~IsLoadedCall(CurInstr)
    /\ \E r \in Outcomes(CurInstr, stack, globals, instructionPointer) :
          Executed(Back(execStack), r)
    /\ UNCHANGED <<codeBlocks, currentCode, library>>

DispatchCallGuarded ==
    /\ AtFetch
    /\ IsLoadedCall(CurInstr)
    /\ Len(callStack) < MaxDepth
    /\ IF \E i \in 1..Len(callStack) : callStack[i].functionName = CurInstr.operandStr
       THEN /\ instructionPointer' = instructionPointer + 1
            /\ last' = Event("dispatch", Back(execStack).code, instructionPointer, Undefined)
            /\ UNCHANGED <<callStack, execStack, currentCode>>
       ELSE /\ callStack' = Append(callStack, ExecutionFrame(CurInstr.operandStr))
            /\ execStack' =
                  Append([execStack EXCEPT ![Len(execStack)].pc = "call",
                                           ![Len(execStack)].idx = instructionPointer],
                         Activation(CurInstr.operandStr))
            /\ currentCode' = CurInstr.operandStr
            /\ instructionPointer' = 0
            /\ last' = Event("call", CurInstr.operandStr, instructionPointer, Undefined)
    /\ UNCHANGED <<codeBlocks, stack, globals, library>>

\* a CALL of a loaded block, up to the first test of the callee's loop
DispatchCall ==
    /\ AtFetch
    /\ IsLoadedCall(CurInstr)
    /\ Len(callStack) < MaxDepth
    /\ callStack' = Append(callStack, ExecutionFrame(CurInstr.operandStr))
    /\ execStack' =
          Append([execStack EXCEPT ![Len(execStack)].pc = "call",
                                   ![Len(execStack)].idx = instructionPointer],
                 Activation(CurInstr.operandStr))
    /\ currentCode' = CurInstr.operandStr
    /\ instructionPointer' = 0
    /\ last' = Event("call", CurInstr.operandStr, instructionPointer, Undefined)
    /\ UNCHANGED <<codeBlocks, stack, globals, library>>

\* Execute's loop has ended: ExecuteFunction pops the frame and returns its
\* returnValue, to the host or to the CALL case of the caller, whose loop
\* iteration then ends (early-return test, instructionPointer_++)
Returned(top, result, cs, es) ==
    /\ callStack' = cs
    /\ last' = [Event("return", top.code, instructionPointer, result)
                   EXCEPT !.first = top.ret1]
    /\ IF es = <<>>
       THEN /\ execStack' = es
            /\ UNCHANGED instructionPointer
       ELSE /\ execStack' =
                  [es EXCEPT ![Len(es)].pc = IF EarlyReturn(cs) THEN "done" ELSE "loop"]
            /\ instructionPointer' =
                  IF EarlyReturn(cs) THEN instructionPointer ELSE instructionPointer + 1

\* Execute's loop is over: a break, or the test fails
LoopOver ==
    /\ execStack # <<>>
    /\ \/ Back(execStack).pc = "done"
       \/ /\ Back(execStack).pc = "loop"
          /\ ~InRange(instructionPointer, codeBlocks[Back(execStack).code])

ReturnPushesResult ==
    /\ LoopOver
    /\ Returned(Back(execStack), Back(callStack).returnValue,
                PopBack(callStack), PopBack(execStack))
    /\ stack' = IF Len(execStack) > 1 /\ Len(stack) < MaxStack
                THEN Append(stack, Back(callStack).returnValue)
                ELSE stack
    /\ UNCHANGED <<codeBlocks, globals, currentCode, library>>

Return ==
    /\ LoopOver
    /\ Returned(Back(execStack), Back(callStack).returnValue,
                PopBack(callStack), PopBack(execStack))
    /\ UNCHANGED <<codeBlocks, stack, globals, currentCode, library>>

(***************************************************************************)
(* The host: the names it uses and the code blocks it has to load          *)
(***************************************************************************)
F == <<"f">>

G == <<"g">>

H == <<"h">>

X == <<"x">>

Y == <<"y">>

FunctionNames == {F, G, H}

Vals ==
    {Num(0), Num(2), Num(-3), String(<<>>), String(<<"a">>), String(<<"1", "2">>),
     Boolean(TRUE), Boolean(FALSE), Undefined}

\* h leaves a String on the operand stack and a Number in global x
Noise == CodeBlock(H, <<I1("PUSHI", Num(4)), IS("POP", X), IS("PUSHS", <<"a", "b">>)>>)

\* VM_Test.cpp's TestAdd, for operands x and y
TestAdd(name, x, y) ==
    CodeBlock(name, <<I1("PUSHI", x), I1("PUSHI", y), I0("ADD"), I0("RET")>>)

\* a RET of v that is not the last instruction
RetThen(name, v) ==
    CodeBlock(name, <<I1("PUSH", v), I0("RET"), I1("PUSHI", Num(7)), I0("RET")>>)

\* a CALL at index i
Caller(name, callee, i) ==
    CodeBlock(name, [k \in 1..i |-> I0("NOP")]
                    \o <<IS("CALL", callee), I1("PUSHI", Num(1)), I0("RET")>>)

Callees ==
    {<<>>, <<I0("NOP")>>, <<I0("NOP"), I0("NOP")>>,
     <<I1("PUSHI", Num(5)), I0("RET")>>,
     <<I1("PUSHI", Num(0)), I0("RET")>>,
     <<I0("NOP"), I1("PUSHI", Num(6)), IS("POP", Y)>>}

\* spec scenario D, for any branch opcode, condition and target
Branch(name, op, c, t) ==
    CodeBlock(name, <<I1("PUSHB", Boolean(c)), IJ(op, t), I1("PUSHI", Num(1)), I0("RET"),
                      I1("PUSHI", Num(2)), I0("RET")>>)

\* the instruction that pushes v: PUSHI for a Number, PUSH for another kind
PushOf(v) == IF v.type = "REAL" THEN I1("PUSHI", v) ELSE I1("PUSH", v)

\* spec scenario B, for any dividend and divisor
Divide(name, a, z) ==
    CodeBlock(name, <<PushOf(a), PushOf(z), I0("DIV"), I0("RET")>>)

\* an opcode run first, on whatever the operand stack holds
OpFirst(name, instr) ==
    CodeBlock(name, <<instr, I1("PUSHI", Num(1)), I0("RET")>>)

\* a block that returns Number k
Const(name, k) == CodeBlock(name, <<I1("PUSHI", Num(k)), I0("RET")>>)

Store(name, v, g) == CodeBlock(name, <<I1("PUSH", v), IS("POP", g)>>)

Games ==
    {{Noise, TestAdd(F, x, y), Caller(G, F, 1)} : x \in Nums, y \in Nums}
    \cup {{Const(F, 1), Const(F, 2), Const(G, 1), Const(G, 3)}}
    \cup {{Noise, RetThen(F, v), Caller(G, F, 0)} : v \in Vals}
    \cup {{Noise, Caller(F, G, i), CodeBlock(G, c)} : i \in 0..2, c \in Callees}
    \cup {{Noise, Branch(F, op, c, t)} : op \in {"JMP", "BT", "BF"}, c \in BOOLEAN, t \in -1..6}
    \cup {{Noise, Divide(F, a, z)} : a \in {Num(2), Num(-3), String(<<"1", "2">>)}, z \in Vals}
    \cup {{Noise, OpFirst(F, I0(op))} : op \in {"ADD", "DIV", "POP", "RET", "DROP", "DUP", "BT", "BF", "NEG"}}
    \cup {{Noise, OpFirst(F, IS("POP", X))}}
    \cup {{Noise, Store(F, v, X), Store(G, w, X), Store(H, v, Y)} : v \in {Num(1), String(<<"a">>)}, w \in {Num(2), Undefined}}
    \cup {{Caller(F, F, 0)}, {Caller(F, G, 1), Caller(G, F, 0)}}

\* the lists the host gives to LoadCodeBlocks: no block, one, or any two
LoadLists ==
    {<<>>} \cup {<<b>> : b \in library} \cup {<<a, b>> : a \in library, b \in library}

Init ==
    /\ library \in Games
    /\ codeBlocks = <<>>
    /\ stack = <<>>
    /\ callStack = <<>>
    /\ globals = <<>>
    /\ currentCode = <<>>
    /\ instructionPointer = 0
    /\ execStack = <<>>
    /\ last = Event("init", <<>>, 0, Undefined)
    /\ twin = NoTwin

Next ==
    \/ (\E b \in library : AddCodeBlock(b)) /\ UNCHANGED twin
    \/ (\E bs \in LoadLists : LoadCodeBlocks(bs)) /\ UNCHANGED twin
    \/ (\E name \in FunctionNames : ExecuteFunctionMissing(name)) /\ UNCHANGED twin
    \/ (\E name \in FunctionNames : ExecuteFunctionEnter(name)) /\ UNCHANGED twin
    \/ Dispatch /\ UNCHANGED twin
    \/ DispatchCall /\ UNCHANGED twin
    \/ Return /\ UNCHANGED twin

Spec == Init /\ [][Next]_vars

(***************************************************************************)
(* One instruction on every operand stack: the host has loaded a block of  *)
(* one instruction and earlier calls have left operands on the stack       *)
(***************************************************************************)
\* the kinds of Value and the Numbers that the coercions tell apart
OperandVals ==
    {Num(0), Num(2), Num(-3), Number(MkReal(1, 2)), Number(NaN),
     String(<<>>), String(<<"a">>), String(<<"1", "2">>),
     Boolean(TRUE), Boolean(FALSE), Undefined}

BinaryOps ==
    {"ADD", "SUB", "MUL", "DIV", "MOD", "AND", "OR", "XOR", "SHL", "SHR",
     "TEQ", "TNE", "TLT", "TLE", "TGT", "TGE", "LAND", "LOR"}

UnaryOps == {"NEG", "COM", "NOT"}

PushOps == {"PUSH", "PUSHI", "PUSHF", "PUSHB"}

\* what lies on the stack below the operands
Below ==
    UNION {[1..k -> {Num(7), String(<<"a", "b">>)}] : k \in 0..(MaxStack - 2)}

\* no operand, one, or two
Operands ==
    {<<>>} \cup {<<v>> : v \in OperandVals}
    \cup {<<a, b>> : a \in OperandVals, b \in OperandVals}

\* the instruction of the block and the operand stack it runs on
Cases ==
    {<<I0(op), p \o t>> : op \in BinaryOps \cup UnaryOps, p \in Below, t \in Operands}
    \cup {<<I1(op, v), p>> : op \in PushOps, v \in OperandVals, p \in Below}

InitOps ==
    /\ \E c \in Cases :
          /\ library = {CodeBlock(F, <<c[1]>>)}
          /\ codeBlocks = Upsert(<<>>, CodeBlock(F, <<c[1]>>))
          /\ stack = c[2]
    /\ callStack = <<>>
    /\ globals = <<>>
    /\ currentCode = <<>>
    /\ instructionPointer = 0
    /\ execStack = <<>>
    /\ last = Event("add", F, 0, Boolean(FALSE))
    /\ twin = NoTwin

\* the host calls the block once
NextOps ==
    \/ last.kind = "add" /\ ExecuteFunctionEnter(F) /\ UNCHANGED twin
    \/ Dispatch /\ UNCHANGED twin
    \/ Return /\ UNCHANGED twin

SpecOps == InitOps /\ [][NextOps]_vars

(***************************************************************************)
(* Properties                                                              *)
(***************************************************************************)
\* the instruction the last loop iteration dispatched
LastInstr == codeBlocks[last.name].instructions[last.idx + 1]

Dispatched(op) == last.kind = "dispatch" /\ LastInstr.op = op

\* no instruction of the invocation will be fetched any more
Ended(i) ==
    /\ i = Len(execStack)
    /\ \/ execStack[i].pc = "done"
       \/ ~InRange(instructionPointer, codeBlocks[execStack[i].code])

\* C1: once an invocation has executed a RET it executes no further
\* instruction, and ExecuteFunction returns the Value that RET popped,
\* whatever that Value is.
RetEndsInvocation ==
    /\ \A i \in 1..Len(execStack) : execStack[i].ret1 # <<>> => Ended(i)
    /\ last.kind = "return" /\ last.first # <<>> => last.val = last.first[1]

\* C2: when the callee of a CALL at index i has finished, the caller goes on
\* with the instruction at index i + 1 of its own block.
CallResumesAfterCall ==
    /\ last.kind = "return"
    /\ execStack # <<>>
    /\ InRange(Back(execStack).idx + 1, codeBlocks[Back(execStack).code])
    => /\ Back(execStack).pc = "loop"
       /\ instructionPointer = Back(execStack).idx + 1

\* the block is VM_Test.cpp's [PUSHI x, PUSHI y, ADD, RET] for whole Numbers x, y
IsTestAdd(b) ==
    /\ Len(b.instructions) = 4
    /\ <<b.instructions[1].op, b.instructions[2].op, b.instructions[3].op,
         b.instructions[4].op>> = <<"PUSHI", "PUSHI", "ADD", "RET">>
    /\ \A k \in 1..2 : /\ b.instructions[k].operand1.type = "REAL"
                       /\ b.instructions[k].operand1.real.d = 1

\* C3: ExecuteFunction of a loaded [PUSHI x, PUSHI y, ADD, RET] returns Number
\* x + y, whatever the operand stack and the globals hold.
AddReturnsSum ==
    last.kind = "return" /\ IsTestAdd(codeBlocks[last.name])
    => last.val = Num(codeBlocks[last.name].instructions[1].operand1.real.n
                      + codeBlocks[last.name].instructions[2].operand1.real.n)

\* x + y = 0 with x # 0, returned over a used operand stack and set globals
AddWitness ==
    /\ last.kind = "return"
    /\ IsTestAdd(codeBlocks[last.name])
    /\ codeBlocks[last.name].instructions[1].operand1 = Num(2)
    /\ last.val = Num(0)
    /\ stack # <<>>
    /\ globals # <<>>

\* the Value a pop takes from the operand stack
Popped(stk) == IF stk = <<>> THEN Num(0) ELSE stk[Len(stk)]

Rest(stk) == IF stk = <<>> THEN <<>> ELSE SubSeq(stk, 1, Len(stk) - 1)

\* the loop iteration being taken dispatches a JMP, BT or BF that jumps
TakenJump ==
    /\ last'.kind = "dispatch"
    /\ CurInstr.jumpTarget >= 0
    /\ \/ CurInstr.op = "JMP"
       \/ CurInstr.op = "BT" /\ AsBool(Popped(stack))
       \/ CurInstr.op = "BF" /\ ~AsBool(Popped(stack))

\* the invocation at the top goes on, in the same block
GoesOn ==
    /\ Len(execStack') = Len(execStack)
    /\ Back(execStack').code = Back(execStack).code
    /\ Back(execStack').pc = "loop"

\* C4: after a taken JMP, BT or BF with 0 <= jumpTarget < block length the
\* next instruction fetched is the one at index jumpTarget of the same block.
JumpLandsOnTarget ==
    [][TakenJump /\ InRange(CurInstr.jumpTarget, codeBlocks[Back(execStack).code])
       => GoesOn /\ instructionPointer' = CurInstr.jumpTarget]_vars

\* a BF to target 0 has been taken
JumpWitness ==
    /\ library = {Noise, Branch(F, "BF", FALSE, 0)}
    /\ Dispatched("BF")
    /\ globals = <<>>
    /\ stack = <<>>

\* C5, first part: BT and BF pop one Value, jump to jumpTarget when taken and
\* fall through to the next index otherwise.
BranchStep ==
    last'.kind = "dispatch" /\ CurInstr.op \in {"BT", "BF"}
    => /\ stack' = Rest(stack)
       /\ instructionPointer' =
             IF TakenJump THEN CurInstr.jumpTarget ELSE instructionPointer + 1

\* C5, second part: scenario D returns 1 when c is true and 2 when it is false.
ScenarioD ==
    \A c \in BOOLEAN :
        last.kind = "return" /\ codeBlocks[last.name] = Branch(last.name, "BF", c, 4)
        => last.val = IF c THEN Num(1) ELSE Num(2)

\* C5: BT and BF pop exactly one Value whether or not they jump, BT jumps iff
\* the Value is true, BF iff it is false, and jumpTarget >= 0; scenario D
\* returns 1 for c = true and 2 for c = false.
BranchSemantics == []ScenarioD /\ [][BranchStep]_vars

BranchWitness ==
    /\ last.kind = "return"
    /\ last.name = F
    /\ codeBlocks[F] = Branch(F, "BF", FALSE, 4)
    /\ last.val = Num(2)

\* an instruction dispatched on the empty operand stack pops Number 0s
UnderflowStep ==
    last'.kind = "dispatch" /\ stack = <<>>
    => /\ GoesOn
       /\ CurInstr.op \in {"ADD", "DIV", "NEG"}
          => stack' = <<Num(0)>> /\ instructionPointer' = instructionPointer + 1
       /\ CurInstr.op \in {"POP", "DROP", "RET", "BT", "BF"} => stack' = <<>>
       /\ CurInstr.op = "POP" /\ CurInstr.operandStr # <<>>
          => globals'[CurInstr.operandStr] = Num(0)
       /\ CurInstr.op = "RET" => Back(callStack').returnValue = Num(0)

\* C6: a pop on an empty operand stack yields Number 0, leaves the stack
\* empty and does not end the block; ADD on an empty stack pushes Number 0
\* and the next index is executed.
UnderflowYieldsZero == [][UnderflowStep]_vars

\* ADD has run first in a block, on the empty stack of a fresh VM
UnderflowWitness ==
    /\ library = {Noise, OpFirst(F, I0("ADD"))}
    /\ globals = <<>>
    /\ Dispatched("ADD")
    /\ stack = <<Num(0)>>

\* a call of a name that is not loaded, by the host or by a CALL
MissingStep ==
    /\ last'.kind = "missing"
       => last'.val = Num(0) /\ UNCHANGED <<callStack, stack, globals, codeBlocks>>
    /\ last'.kind = "dispatch" /\ CurInstr.op = "CALL" /\ CurInstr.operandStr # <<>>
       => UNCHANGED <<callStack, stack, globals, codeBlocks>>

\* C7: ExecuteFunction of a name that is not loaded returns Number 0 and
\* leaves the call stack, the operand stack, the globals and the code-block
\* table as they were, for the host and for a CALL alike.
MissingFunctionIsSoft == [][MissingStep]_vars

MissingWitness ==
    /\ last.kind = "missing"
    /\ stack # <<>>
    /\ globals # <<>>
    /\ codeBlocks # <<>>

\* divisors that coerce to 0
ZeroDivisors ==
    {Num(0), Boolean(FALSE), Undefined, String(<<>>), String(<<"a">>), String(<<"a", "b">>)}

DivByZeroStep ==
    last'.kind = "dispatch" /\ CurInstr.op = "DIV" /\ Popped(stack) \in ZeroDivisors
    => /\ stack' = Append(Rest(Rest(stack)), Num(0))
       /\ GoesOn
       /\ instructionPointer' = instructionPointer + 1

\* the block is [PUSHI a, PUSHI 0, DIV, RET] for a Number a
IsScenarioB(b) ==
    /\ Len(b.instructions) = 4
    /\ <<b.instructions[1].op, b.instructions[2].op, b.instructions[3].op,
         b.instructions[4].op>> = <<"PUSHI", "PUSHI", "DIV", "RET">>
    /\ b.instructions[1].operand1.type = "REAL"
    /\ b.instructions[2].operand1 = Num(0)

ScenarioB ==
    last.kind = "return" /\ IsScenarioB(codeBlocks[last.name]) => last.val = Num(0)

\* C8: DIV by a divisor that coerces to 0 pushes Number 0 for every dividend
\* and does not end the block; [PUSHI a, PUSHI 0, DIV, RET] returns Number 0.
DivByZeroIsZero == []ScenarioB /\ [][DivByZeroStep]_vars

\* a Number has been divided by a non-numeric String
DivWitness ==
    /\ library = {Noise, Divide(F, Num(2), String(<<"a">>))}
    /\ globals = <<>>
    /\ Dispatched("DIV")
    /\ stack = <<Num(0)>>

NamedPop == last'.kind = "dispatch" /\ CurInstr.op = "POP" /\ CurInstr.operandStr # <<>>

GlobalStep ==
    /\ \A n \in DOMAIN globals :
          /\ n \in DOMAIN globals'
          /\ globals'[n] # globals[n] => NamedPop /\ CurInstr.operandStr = n
    /\ NamedPop => globals'[CurInstr.operandStr] = Popped(stack)

\* C9: a POP with name n stores the popped Value in globals[n], where it
\* stays, across ExecuteFunction calls, until another POP with name n runs;
\* no global is ever removed.
GlobalsPersist == [][GlobalStep]_vars

\* x, stored by f, is still there when a later call of h (which stores y) returns
GlobalWitness ==
    /\ HostHasControl
    /\ last.kind = "return"
    /\ last.name = H
    /\ H \in DOMAIN codeBlocks
    /\ F \in DOMAIN codeBlocks
    /\ codeBlocks[H] = Store(H, Num(1), Y)
    /\ codeBlocks[F] = Store(F, Num(1), X)
    /\ DOMAIN globals = {X, Y}
    /\ globals[X] = Num(1)

\* new is old with the blocks of the list stored under their names, the last
\* block of a name winning
IsUpsertOf(old, new, blocks) ==
    /\ DOMAIN new = DOMAIN old \cup {blocks[i].name : i \in 1..Len(blocks)}
    /\ \A n \in DOMAIN new :
          IF \E i \in 1..Len(blocks) : blocks[i].name = n
          THEN \E i \in 1..Len(blocks) :
                  /\ blocks[i].name = n
                  /\ new[n] = blocks[i]
                  /\ \A j \in (i + 1)..Len(blocks) : blocks[j].name # n
          ELSE new[n] = old[n]

LoadStep ==
    /\ last'.kind = "add"
       => \A b \in library :
             AddCodeBlock(b)
             => /\ IsUpsertOf(codeBlocks, codeBlocks', <<b>>)
                /\ b.name \in DOMAIN codeBlocks /\ codeBlocks[b.name] = b
                   => UNCHANGED codeBlocks
    /\ last'.kind = "load"
       => \A bs \in LoadLists :
             Len(bs) = last'.idx /\ LoadCodeBlocks(bs)
             => IsUpsertOf(codeBlocks, codeBlocks', bs)

\* every entry is stored under its own name
TableKeyed == \A n \in DOMAIN codeBlocks : codeBlocks[n].name = n

\* what ExecuteFunction returns is what the block now in the table returns
RunsLatest ==
    \A k \in 1..3 :
        last.kind = "return" /\ codeBlocks[last.name] = Const(last.name, k)
        => last.val = Num(k)

\* C10: AddCodeBlock and LoadCodeBlocks are an upsert by name: one entry per
\* name, the last load of a name wins (within one list too), loading a block
\* twice is loading it once, and ExecuteFunction runs the latest block.
LoadIsUpsert == [](TableKeyed /\ RunsLatest) /\ [][LoadStep]_vars

\* one list has loaded two different blocks named f
UpsertWitness ==
    /\ last.kind = "load"
    /\ last.val = Boolean(TRUE)
    /\ DOMAIN codeBlocks = {F}
    /\ codeBlocks[F] = Const(F, 2)

\* the frames are those of the ExecuteFunction invocations in progress, the
\* caller's before the callee's
FramesMatch ==
    /\ Len(callStack) = Len(execStack)
    /\ \A i \in 1..Len(callStack) : callStack[i].functionName = execStack[i].code

\* an invocation pushes one new frame, a return pops the top frame, and no
\* other step touches a frame but the top one
FrameStep ==
    /\ last'.kind \in {"enter", "call"}
       => callStack' = Append(callStack, [functionName |-> last'.name,
                                          instructionPointer |-> 0,
                                          returnValue |-> Undefined])
    /\ last'.kind = "return"
       => callStack' = SubSeq(callStack, 1, Len(callStack) - 1)
    /\ last'.kind \notin {"enter", "call", "return"}
       => /\ Len(callStack') = Len(callStack)
          /\ \A i \in 1..(Len(callStack) - 1) : callStack'[i] = callStack[i]

\* C11: the call stack holds one frame for each ExecuteFunction of a loaded
\* block in progress, caller before callee; a return leaves the call stack as
\* the invocation found it, and it is empty whenever the host has control.
CallStackTracksInvocations ==
    [](FramesMatch /\ (HostHasControl => callStack = <<>>)) /\ [][FrameStep]_vars

\* f, called by g, has returned; g's frame is the only one left
FrameWitness ==
    /\ last.kind = "return"
    /\ last.name = F
    /\ Len(callStack) = 1
    /\ callStack[1].functionName = G

\* frame push, frame pop and the host's other calls leave the operand stack alone
StackKeptStep ==
    last'.kind \in {"enter", "call", "return", "add", "load", "missing"}
    => stack' = stack

\* C12: the operand stack is one stack shared by all frames: a frame push and
\* a frame pop leave it unchanged, CALL does not push the callee's return
\* value, and what a top-level ExecuteFunction leaves on it is there when the
\* next one starts.
OperandStackShared == [][StackKeptStep]_vars

\* g has returned 5 to the CALL in f and the operand stack holds only what an
\* earlier call of h left on it
SharedStackWitness ==
    /\ last.kind = "return"
    /\ last.name = G
    /\ last.val = Num(5)
    /\ Len(callStack) = 1
    /\ stack = <<String(<<"a", "b">>)>>

\* Execute's loop is about to dispatch a CALL whose name is no loaded block
AtUnloadedCall ==
    /\ AtFetch
    /\ CurInstr.op = "CALL"
    /\ CurInstr.operandStr # <<>>
    /\ CurInstr.operandStr \notin DOMAIN codeBlocks

\* C13: a CALL whose name operand is not the name of a loaded code block
\* invokes the built-in dispatcher, CallBuiltIn, with that name.
CallReachesBuiltIn ==
    [][AtUnloadedCall => last'.kind = "builtin" /\ last'.name = CurInstr.operandStr]_vars

\* a OP b, as Value's operators and the comparison and logical cases compute it
BinaryResult(op, a, b) ==
    CASE op = "ADD" -> ValAdd(a, b)
      [] op = "SUB" -> ValSub(a, b)
      [] op = "MUL" -> ValMul(a, b)
      [] op = "DIV" -> ValDiv(a, b)
      [] op = "MOD" -> ValMod(a, b)
      [] op = "AND" -> ValBitAnd(a, b)
      [] op = "OR" -> ValBitOr(a, b)
      [] op = "XOR" -> ValBitXor(a, b)
      [] op = "SHL" -> ValShl(a, b)
      [] op = "SHR" -> ValShr(a, b)
      [] op = "TEQ" -> TestEq(a, b)
      [] op = "TNE" -> TestNe(a, b)
      [] op = "TLT" -> TestLt(a, b)
      [] op = "TLE" -> TestLe(a, b)
      [] op = "TGT" -> TestGt(a, b)
      [] op = "TGE" -> TestGe(a, b)
      [] op = "LAND" -> LogicalAnd(a, b)
      [] op = "LOR" -> LogicalOr(a, b)

UnaryResult(op, a) ==
    CASE op = "NEG" -> ValNeg(a)
      [] op = "COM" -> ValCom(a)
      [] op = "NOT" -> ValNot(a)

\* a binary opcode on a stack of depth d >= 2: b is the top, a the next
BinaryStep ==
    last'.kind = "dispatch" /\ CurInstr.op \in BinaryOps /\ Len(stack) >= 2
    => /\ Len(stack') = Len(stack) - 1
       /\ SubSeq(stack', 1, Len(stack) - 2) = SubSeq(stack, 1, Len(stack) - 2)
       /\ ~IsUndefined(CurInstr.op, stack[Len(stack) - 1], stack[Len(stack)])
          => stack'[Len(stack) - 1] =
                BinaryResult(CurInstr.op, stack[Len(stack) - 1], stack[Len(stack)])

\* a unary opcode on a stack of depth d >= 1
UnaryStep ==
    last'.kind = "dispatch" /\ CurInstr.op \in UnaryOps /\ Len(stack) >= 1
    => /\ Len(stack') = Len(stack)
       /\ SubSeq(stack', 1, Len(stack) - 1) = SubSeq(stack, 1, Len(stack) - 1)
       /\ ~IsUndefined(CurInstr.op, Undefined, stack[Len(stack)])
          => stack'[Len(stack)] = UnaryResult(CurInstr.op, stack[Len(stack)])

\* C14: every binary opcode pops the top as b and the next as a and pushes the
\* one result a OP b, so depth d >= 2 becomes d - 1 and the values below the
\* operands are unchanged; NEG, COM and NOT pop one and push one, so depth
\* d >= 1 is unchanged.
OperatorsKeepStackDiscipline == [][BinaryStep /\ UnaryStep]_vars

\* SUB has run on 7, 2, -3 (bottom to top)
DisciplineWitness ==
    /\ Dispatched("SUB")
    /\ stack = <<Num(7), Num(5)>>

\* C15: LAND, LOR and NOT each push a Value of kind Number, 1 or 0, never one
\* of kind Boolean, for operands of every kind.
LogicalPushesNumber ==
    [][last'.kind = "dispatch" /\ CurInstr.op \in {"LAND", "LOR", "NOT"}
       => Back(stack') \in {Num(0), Num(1)}]_vars

\* the relation a OP b: on the strings when both operands are Strings, on
\* AsReal of both in every other case
Relation(op, a, b) ==
    IF IsString(a) /\ IsString(b)
    THEN CASE op = "TEQ" -> a.str = b.str
           [] op = "TNE" -> a.str # b.str
           [] op = "TLT" -> StrLess(a.str, b.str)
           [] op = "TLE" -> StrLess(a.str, b.str) \/ a.str = b.str
           [] op = "TGT" -> StrLess(b.str, a.str)
           [] op = "TGE" -> StrLess(b.str, a.str) \/ a.str = b.str
    ELSE CASE op = "TEQ" -> RealEq(AsReal(a), AsReal(b))
           [] op = "TNE" -> ~RealEq(AsReal(a), AsReal(b))
           [] op = "TLT" -> RealLess(AsReal(a), AsReal(b))
           [] op = "TLE" -> RealLess(AsReal(a), AsReal(b)) \/ RealEq(AsReal(a), AsReal(b))
           [] op = "TGT" -> RealLess(AsReal(b), AsReal(a))
           [] op = "TGE" -> RealLess(AsReal(b), AsReal(a)) \/ RealEq(AsReal(a), AsReal(b))

\* C16: TEQ, TNE, TLT, TLE, TGT and TGE push Number 1 when the relation a OP b
\* holds and Number 0 otherwise; the relation compares the strings when both
\* operands are Strings and AsReal of both operands in every other case.
ComparisonPushesRelation ==
    [][last'.kind = "dispatch"
       /\ CurInstr.op \in {"TEQ", "TNE", "TLT", "TLE", "TGT", "TGE"}
       => Back(stack') = Flag(Relation(CurInstr.op, Popped(Rest(stack)), Popped(stack)))]_vars

\* C17: PUSH, PUSHI and PUSHF each push the Number AsReal(operand1), for an
\* operand1 of every kind.
PushPushesNumber ==
    [][last'.kind = "dispatch" /\ CurInstr.op \in {"PUSH", "PUSHI", "PUSHF"}
       => Back(stack') = Number(AsReal(CurInstr.operand1))]_vars

\* C18: PUSHB pushes the Boolean AsBool(operand1), for an operand1 of every kind.
PushBPushesAsBool ==
    [][last'.kind = "dispatch" /\ CurInstr.op = "PUSHB"
       => Back(stack') = Boolean(AsBool(CurInstr.operand1))]_vars

\* a is Undefined, or a Number equal to 0, or an empty String
IsListedFalsy(a) ==
    \/ a.type = "UNDEFINED"
    \/ a.type = "REAL" /\ RealIsZero(a.real)
    \/ a.type = "STRING" /\ a.str = <<>>

\* NOT has applied AsBool to the top of the stack and found it false
FoundFalse == Back(stack') = Boolean(TRUE)

NotStep == last'.kind = "dispatch" /\ CurInstr.op = "NOT" /\ stack # <<>>

\* C19 as stated: AsBool(a) is false if and only if a is Undefined, or a Number
\* equal to 0, or an empty String.
AsBoolFalseIffListed == [][NotStep => (FoundFalse <=> IsListedFalsy(Back(stack)))]_vars

\* C19, amended: AsBool(a) is false if and only if a is Undefined, or a Number
\* equal to 0, or an empty String, or the Boolean false.
AsBoolFalseIff ==
    [][NotStep => (FoundFalse <=> IsListedFalsy(Back(stack)) \/ Back(stack) = Boolean(FALSE))]_vars

\* NOT has run on a true operand above a 7
AsBoolWitness ==
    /\ Dispatched("NOT")
    /\ stack = <<Num(7), Boolean(FALSE)>>

\* x OP y on doubles, with operator/'s test of the divisor
ArithmeticResult(op, x, y) ==
    CASE op = "ADD" -> RealAdd(x, y)
      [] op = "SUB" -> RealSub(x, y)
      [] op = "MUL" -> RealMul(x, y)
      [] op = "DIV" -> IF RealIsZero(y) THEN Zero ELSE RealQuot(x, y)
      [] op = "MOD" -> RealFmod(x, y)

ArithmeticStep ==
    /\ last'.kind = "dispatch" /\ CurInstr.op \in {"ADD", "SUB", "MUL", "DIV", "MOD"}
       => Back(stack') = Number(ArithmeticResult(CurInstr.op, AsReal(Popped(Rest(stack))),
                                                 AsReal(Popped(stack))))
    /\ last'.kind = "dispatch" /\ CurInstr.op = "NEG"
       => Back(stack') = Number(RealNeg(AsReal(Popped(stack))))

\* C20: ADD, SUB, MUL, DIV, MOD and NEG always push a Number computed from
\* AsReal of the operands, whatever their kinds; ADD of two Strings pushes
\* the Number sum of their numeric coercions and never a String.
ArithmeticPushesNumber == [][ArithmeticStep]_vars

\* ADD has run on the Strings "12" and "12", the only operands with sum 24
ArithmeticWitness ==
    /\ Dispatched("ADD")
    /\ stack = <<Num(24)>>

(***************************************************************************)
(* One push of an operand of every kind: AsReal on every short string      *)
(***************************************************************************)
MaxStrLen == 3

\* the strings of at most MaxStrLen characters
Strings == UNION {[1..k -> Chars] : k \in 0..MaxStrLen}

InitStrings ==
    /\ \E v \in OperandVals \cup {String(s) : s \in Strings} :
          /\ library = {CodeBlock(F, <<I1("PUSHF", v)>>)}
          /\ codeBlocks = Upsert(<<>>, CodeBlock(F, <<I1("PUSHF", v)>>))
    /\ stack = <<>>
    /\ callStack = <<>>
    /\ globals = <<>>
    /\ currentCode = <<>>
    /\ instructionPointer = 0
    /\ execStack = <<>>
    /\ last = Event("add", F, 0, Boolean(FALSE))
    /\ twin = NoTwin

SpecStrings == InitStrings /\ [][NextOps]_vars

\* a whole string that is a decimal number: an optional sign, digits with an
\* optional decimal point (white space before the number is allowed)
IsDecimalLiteral(s) ==
    LET t == SkipSpace(s)
        body == IF t # <<>> /\ Head(t) \in {"+", "-"} THEN Tail(t) ELSE t
        ip == DigitRun(body, 0, 0)
        fp == IF ip.rest # <<>> /\ Head(ip.rest) = "."
              THEN DigitRun(Tail(ip.rest), 0, 0)
              ELSE [val |-> 0, cnt |-> 0, rest |-> ip.rest]
    IN  ip.cnt + fp.cnt > 0 /\ fp.rest = <<>>

\* the number the statement gives for each kind of Value
StatedNumber(v) ==
    CASE v.type = "REAL" -> v.real
      [] v.type = "BOOL" -> IF v.bool THEN One ELSE Zero
      [] v.type = "UNDEFINED" -> Zero
      [] v.type = "STRING" ->
            IF IsDecimalLiteral(v.str) THEN Stod(v.str).val ELSE Zero

\* C21: AsNumber never raises and yields the Number itself, 1/0 for a
\* Boolean, 0 for Undefined, the value of a String that is a decimal literal
\* and 0 for every String that is not one (empty, non-numeric, or a number
\* followed by other characters).
AsNumberOfEveryKind ==
    [][last'.kind = "dispatch" /\ CurInstr.op = "PUSHF"
       => stack' = <<Number(StatedNumber(CurInstr.operand1))>>]_vars

(***************************************************************************)
(* Single opcodes inside nested calls: g calls f, whose first instruction  *)
(* is the opcode, while h fills the operand stack and a global             *)
(***************************************************************************)
\* the opcodes of the enum that ExecuteInstruction's switch has no case for
Unimplemented ==
    {"INVALID", "PUSHVN", "POPVN", "CALLV", "EXIT", "LDGLB", "STGLB",
     "LDLOC", "STLOC", "LDINST", "STINST", "CONV"}

\* the first instructions of f: the opcodes without a case, bare and with
\* every operand set, and the opcodes that touch the stack or call nothing
FirstInstrs ==
    {I0(op) : op \in Unimplemented}
    \cup {Instr(op, Num(2), X, 0) : op \in Unimplemented}
    \cup {I0("DUP"), I0("DROP"), I0("POP"), IS("POP", X), IS("POP", Y), I0("RET"),
          IS("CALL", Y), I0("CALL")}

OpcodeGames == {{Noise, OpFirst(F, instr), Caller(G, F, 0)} : instr \in FirstInstrs}

InitOpcodes ==
    /\ library \in OpcodeGames
    /\ codeBlocks = <<>>
    /\ stack = <<>>
    /\ callStack = <<>>
    /\ globals = <<>>
    /\ currentCode = <<>>
    /\ instructionPointer = 0
    /\ execStack = <<>>
    /\ last = Event("init", <<>>, 0, Undefined)
    /\ twin = NoTwin

SpecOpcodes == InitOpcodes /\ [][Next]_vars

NextIndex ==
    /\ instructionPointer' = instructionPointer + 1
    /\ Len(execStack') = Len(execStack)
    /\ Back(execStack').pc = "loop"

DupStep ==
    last'.kind = "dispatch" /\ CurInstr.op = "DUP"
    => /\ stack # <<>> => stack' = Append(stack, Back(stack))
       /\ stack = <<>> => stack' = <<Num(0)>>
       /\ NextIndex

DropStep ==
    last'.kind = "dispatch" /\ CurInstr.op = "DROP"
    => /\ stack # <<>> => stack' = SubSeq(stack, 1, Len(stack) - 1)
       /\ stack = <<>> => stack' = <<>>
       /\ NextIndex

\* C23: DUP on a non-empty stack pushes a copy of the top (depth + 1, the two
\* top values equal) and on an empty stack pushes Number 0; DROP removes the
\* top of a non-empty stack and leaves an empty stack empty; neither stops
\* execution.
DupAndDrop == [][DupStep /\ DropStep]_vars

\* DUP has run on the empty stack inside a CALL
DupWitness ==
    /\ Dispatched("DUP")
    /\ stack = <<Num(0)>>
    /\ Len(callStack) = 2

(***************************************************************************)
(* Running to completion: ExecuteFunction is a synchronous call, so a      *)
(* started invocation always takes the next step of its loop               *)
(***************************************************************************)
\* blocks that leave the operand stack as deep as they found it
LiveGames ==
    {{Caller(F, G, i), CodeBlock(G, c)} : i \in 0..2, c \in Callees}
    \cup {{TestAdd(F, x, y), Caller(G, F, 1)} : x \in Nums, y \in Nums}
    \cup {{Caller(F, F, 0)}, {CodeBlock(F, <<IJ("JMP", 0)>>)}}

InitLive ==
    /\ library \in LiveGames
    /\ codeBlocks = <<>>
    /\ stack = <<>>
    /\ callStack = <<>>
    /\ globals = <<>>
    /\ currentCode = <<>>
    /\ instructionPointer = 0
    /\ execStack = <<>>
    /\ last = Event("init", <<>>, 0, Undefined)
    /\ twin = NoTwin

SpecLive ==
    /\ InitLive
    /\ [][Next]_vars
    /\ WF_vars(Dispatch /\ UNCHANGED twin)
    /\ WF_vars(DispatchCall /\ UNCHANGED twin)
    /\ WF_vars(Return /\ UNCHANGED twin)

\* no loaded block contains JMP, BT or BF
NoJumpLoaded ==
    \A n \in DOMAIN codeBlocks :
        \A i \in 1..Len(codeBlocks[n].instructions) :
            codeBlocks[n].instructions[i].op \notin {"JMP", "BT", "BF"}

\* block a holds a CALL of the loaded block b
Calls(a, b) ==
    \E i \in 1..Len(codeBlocks[a].instructions) :
        /\ codeBlocks[a].instructions[i].op = "CALL"
        /\ codeBlocks[a].instructions[i].operandStr = b

\* b is reached from a by at most k + 1 CALLs
RECURSIVE CallPath(_, _, _)
CallPath(a, b, k) ==
    \/ Calls(a, b)
    \/ k > 0 /\ \E c \in DOMAIN codeBlocks : Calls(a, c) /\ CallPath(c, b, k - 1)

AcyclicCalls ==
    \A n \in DOMAIN codeBlocks : ~CallPath(n, n, Cardinality(DOMAIN codeBlocks))

\* C25: if no loaded block contains JMP, BT or BF and the CALL graph among
\* the loaded blocks is acyclic, every ExecuteFunction invocation eventually
\* returns.
StraightCodeReturns ==
    (execStack # <<>> /\ NoJumpLoaded /\ AcyclicCalls) ~> (execStack = <<>>)

\* the block of the invocation whose loop is running: that of the top frame
RunningBlock == codeBlocks[Back(callStack).functionName]

\* C26: whenever an instruction is fetched, the index is valid (0 <= index <
\* length) for the block the fetching invocation is executing; so it is after
\* a jump to any target and after the return of a nested CALL into a block
\* of another length.
FetchIndexValid ==
    AtFetch
    => /\ Back(callStack).functionName = Back(execStack).code
       /\ 0 <= instructionPointer
       /\ instructionPointer < Len(RunningBlock.instructions)

\* a nested CALL has returned and the caller fetches at an index that the
\* callee's block does not have
FetchWitness ==
    /\ last.kind = "return"
    /\ AtFetch
    /\ instructionPointer >= Len(codeBlocks[last.name].instructions)

\* C27: every invocation starts with a fresh frame whose return value is
\* Undefined: an ExecuteFunction of a loaded block in which no RET of that
\* block is executed returns Undefined, whatever earlier invocations and
\* nested callees that did execute RET have returned.
NoRetReturnsUndefined ==
    last.kind = "return" /\ last.first = <<>> => last.val = Undefined

\* f = [CALL g, PUSHI 1, RET] has returned to the host without executing its
\* RET, after its callee g = [PUSHI 0, RET] has executed one
FreshFrameWitness ==
    /\ last.kind = "return" /\ last.name = F /\ last.first = <<>>
    /\ execStack = <<>>
    /\ F \in DOMAIN codeBlocks /\ codeBlocks[F] = Caller(F, G, 0)
    /\ G \in DOMAIN codeBlocks /\ codeBlocks[G] = Const(G, 0)

\* GetCallStack(): the name and the recorded instruction pointer of each frame
GetCallStack(cs) ==
    [i \in 1..Len(cs) |-> [name |-> cs[i].functionName, at |-> cs[i].instructionPointer]]

\* the index of the instruction that invocation i is executing: the one its
\* loop is about to dispatch, or its pending CALL
ExecutingIndex(i) ==
    IF i = Len(execStack) THEN instructionPointer ELSE execStack[i].idx

\* C28: at every point of an execution, the instruction pointer recorded in
\* each active frame (what GetCallStack reports) is the index of the
\* instruction that frame is executing: for the top frame the instruction
\* being dispatched, for a caller frame its pending CALL.
FramePointerTracksExecution ==
    AtFetch => \A i \in 1..Len(callStack) : GetCallStack(callStack)[i].at = ExecutingIndex(i)

\* the first instruction of the loaded block name is a CALL of name itself
SelfCalling(name) ==
    /\ name \in DOMAIN codeBlocks
    /\ codeBlocks[name].instructions # <<>>
    /\ codeBlocks[name].instructions[1].op = "CALL"
    /\ codeBlocks[name].instructions[1].operandStr = name

\* C29: there is no recursion-depth guard: while a block whose first
\* instruction is a CALL of its own name runs, every step pushes one more
\* frame of it (no CALL is refused, so every depth is reached in turn) and
\* no invocation of it, the top-level one included, returns.
RecursionIsUnguarded ==
    [][execStack # <<>> /\ SelfCalling(execStack[1].code)
       => /\ callStack' = Append(callStack, ExecutionFrame(execStack[1].code))
          /\ Len(execStack') = Len(execStack) + 1
          /\ instructionPointer' = 0]_vars

\* the recursion has reached the deepest call stack of the model
RecursionWitness ==
    /\ Len(callStack) = MaxDepth
    /\ SelfCalling(F)
    /\ \A i \in 1..MaxDepth : callStack[i].functionName = F

\* a POP with a name operand is being dispatched
StoringPop ==
    last'.kind = "dispatch" /\ CurInstr.op = "POP" /\ CurInstr.operandStr # <<>>

NewVM ==
    [codeBlocks |-> <<>>, stack |-> <<>>, callStack |-> <<>>, globals |-> <<>>,
     currentCode |-> <<>>, instructionPointer |-> 0, execStack |-> <<>>,
     debugOutput |-> FALSE, output |-> "", result |-> Undefined]

LogDebugOnStack(vm, msg) ==
    IF vm.debugOutput
    THEN [vm EXCEPT !.output = msg, !.stack = Append(@, String(<<"a">>))]
    ELSE vm

\* if (debugOutput_) std::cout << "[VM] " << msg << std::endl;
LogDebug(vm, msg) == IF vm.debugOutput THEN [vm EXCEPT !.output = msg] ELSE vm

\* the number of PopStack calls in the case of an opcode
Pops(op) ==
    CASE op \in BinaryOps -> 2
      [] op \in UnaryOps \cup {"POP", "BT", "BF", "RET", "DROP"} -> 1
      [] OTHER -> 0

\* the LogDebug calls made while instr executes: by PopStack on an empty
\* stack, by ExecuteFunction for a CALL of a name it does not find, by default:
LogInstruction(vm, instr) ==
    IF Len(vm.stack) < Pops(instr.op) THEN LogDebug(vm, "Stack underflow!")
    ELSE IF /\ instr.op = "CALL" /\ instr.operandStr # <<>>
            /\ instr.operandStr \notin DOMAIN vm.codeBlocks
         THEN LogDebug(vm, "Function not found")
    ELSE IF instr.op \in Unimplemented THEN LogDebug(vm, "Unknown opcode")
    ELSE vm

\* ExecuteFunction(name), name not in codeBlocks_
TwinMissing(vm, name) ==
    [LogDebug(vm, "Function not found") EXCEPT !.result = NotFoundResult]

\* ExecuteFunction(name) up to the first test of Execute's loop
TwinEnter(vm, name) ==
    [vm EXCEPT !.callStack = Append(@, ExecutionFrame(name)),
               !.execStack = Append(@, Activation(name)),
               !.currentCode = name,
               !.instructionPointer = 0]

\* one iteration of Execute's loop
TwinDispatch(vm) ==
    LET top == Back(vm.execStack)
        instr == Fetch(vm.instructionPointer, vm.codeBlocks[top.code])
        logged == LogInstruction(vm, instr)
        r == ExecuteInstruction(instr, logged.stack, logged.globals,
                                logged.instructionPointer)
        cs == SetReturnValue(logged.callStack, r.ret)
    IN  [logged EXCEPT
            !.stack = r.stack,
            !.globals = r.globals,
            !.callStack = cs,
            !.instructionPointer = IF EarlyReturn(cs) THEN r.ip ELSE r.ip + 1,
            !.execStack =
                [@ EXCEPT ![Len(vm.execStack)] =
                    [code |-> top.code,
                     pc   |-> IF EarlyReturn(cs) THEN "done" ELSE "loop",
                     idx  |-> vm.instructionPointer,
                     ret1 |-> IF top.ret1 = <<>> THEN r.ret ELSE top.ret1]]]

\* a CALL of a loaded block
TwinCall(vm) ==
    LET top == Back(vm.execStack)
        instr == Fetch(vm.instructionPointer, vm.codeBlocks[top.code])
    IN  TwinEnter([vm EXCEPT !.execStack[Len(vm.execStack)].pc = "call",
                             !.execStack[Len(vm.execStack)].idx = vm.instructionPointer],
                  instr.operandStr)

\* the end of ExecuteFunction
TwinReturn(vm) ==
    LET cs == PopBack(vm.callStack)
        es == PopBack(vm.execStack)
        popped == [vm EXCEPT !.callStack = cs, !.execStack = es,
                             !.result = Back(vm.callStack).returnValue]
    IN  IF es = <<>> THEN popped
        ELSE [popped EXCEPT
                 !.execStack[Len(es)].pc = IF EarlyReturn(cs) THEN "done" ELSE "loop",
                 !.instructionPointer = IF EarlyReturn(cs) THEN @ ELSE @ + 1]

\* void SetDebugOutput(bool enabled) { debugOutput_ = enabled; }
SetDebugOutput(enabled) ==
    /\ HostHasControl
    /\ twin' = [twin EXCEPT !.debugOutput = enabled]
    /\ UNCHANGED <<codeBlocks, stack, callStack, globals, currentCode,
                   instructionPointer, execStack, last, library>>

\* blocks whose instructions log: an underflow, a missing function, an opcode
\* without a case
TwinGames ==
    {{Noise, OpFirst(F, instr), Caller(G, F, 0)} :
        instr \in {I0("STGLB"), I0("ADD"), IS("POP", Y), IS("CALL", Y), I0("DUP")}}

InitTwins ==
    /\ library \in TwinGames
    /\ codeBlocks = <<>>
    /\ stack = <<>>
    /\ callStack = <<>>
    /\ globals = <<>>
    /\ currentCode = <<>>
    /\ instructionPointer = 0
    /\ execStack = <<>>
    /\ last = Event("init", <<>>, 0, Undefined)
    /\ twin = NewVM

\* the host makes every call on both machines
NextTwins ==
    \/ \E b \in library :
          AddCodeBlock(b) /\ twin' = [twin EXCEPT !.codeBlocks = Upsert(@, b)]
    \/ \E bs \in LoadLists :
          LoadCodeBlocks(bs) /\ twin' = [twin EXCEPT !.codeBlocks = UpsertAll(@, bs)]
    \/ \E name \in FunctionNames :
          ExecuteFunctionMissing(name) /\ twin' = TwinMissing(twin, name)
    \/ \E name \in FunctionNames :
          ExecuteFunctionEnter(name) /\ twin' = TwinEnter(twin, name)
    \/ Dispatch /\ twin' = TwinDispatch(twin)
    \/ DispatchCall /\ twin' = TwinCall(twin)
    \/ Return /\ twin' = TwinReturn(twin)
    \/ \E enabled \in BOOLEAN : SetDebugOutput(enabled)

SpecTwins == InitTwins /\ [][NextTwins]_vars

\* C24: SetDebugOutput has no effect on semantics: two VirtualMachines that
\* differ only in the debug flag and are given the same AddCodeBlock and
\* ExecuteFunction calls return the same Values and reach the same operand
\* stack, call stack, globals and code-block table.
DebugFlagIsSilent ==
    /\ twin.codeBlocks = codeBlocks
    /\ twin.stack = stack
    /\ twin.callStack = callStack
    /\ twin.globals = globals
    /\ last.kind \in {"missing", "return"} => twin.result = last.val

\* with the flag set, the twin has printed a stack underflow during a call
\* that has returned over a non-empty stack and a global
DebugWitness ==
    /\ twin.debugOutput
    /\ twin.output = "Stack underflow!"
    /\ last.kind = "return" /\ execStack = <<>>
    /\ stack # <<>>
    /\ globals # <<>>

\* C31: a CALL whose name operand is empty or is not the name of a loaded
\* code block leaves the operand stack, the call stack and the globals
\* unchanged, and execution goes on with the next index of the calling block.
CallOfUnloadedIsSkipped ==
    [][last'.kind = "dispatch" /\ CurInstr.op = "CALL"
       => /\ CurInstr.operandStr = <<>> \/ CurInstr.operandStr \notin DOMAIN codeBlocks
          /\ stack' = stack
          /\ callStack' = callStack
          /\ globals' = globals
          /\ Back(execStack').code = Back(execStack).code
          /\ NextIndex]_vars

\* g's CALL of f has run before f was loaded, over a non-empty stack and a
\* global
CallOfUnloadedWitness ==
    /\ Dispatched("CALL")
    /\ last.name = G /\ LastInstr.operandStr = F /\ F \notin DOMAIN codeBlocks
    /\ stack # <<>>
    /\ globals # <<>>

\* C32: STGLB with name n stores the popped top of the operand stack in
\* global n, and LDGLB with name n pushes the Value that global n holds.
GlobalOpcodesStoreAndLoad ==
    [][/\ last'.kind = "dispatch" /\ CurInstr.op = "STGLB" /\ CurInstr.operandStr # <<>>
          => /\ stack' = Rest(stack)
             /\ globals' = StoreGlobal(globals, CurInstr.operandStr, Popped(stack))
       /\ last'.kind = "dispatch" /\ CurInstr.op = "LDGLB"
          /\ CurInstr.operandStr \in DOMAIN globals
          => stack' = Append(stack, globals[CurInstr.operandStr])]_vars

\* the loaded block name contains no JMP, BT, BF or CALL
StraightLine(name) ==
    \A i \in 1..Len(codeBlocks[name].instructions) :
        codeBlocks[name].instructions[i].op \notin {"JMP", "BT", "BF", "CALL"}

\* an invocation starts at index 0, and a dispatch in a block without JMP, BT,
\* BF or CALL either ends the invocation or moves on to the next index
InOrderStep ==
    /\ last'.kind \in {"enter", "call"} => instructionPointer' = 0
    /\ last'.kind = "dispatch" /\ StraightLine(Back(execStack).code)
       => \/ Back(execStack').pc = "done"
          \/ instructionPointer' = instructionPointer + 1

\* the invocation at depth d of a block without JMP, BT, BF or CALL returns
StraightLineReturns(d) ==
    (Len(execStack) = d /\ StraightLine(execStack[d].code)) ~> (Len(execStack) < d)

\* C33: a block that contains no JMP, BT, BF or CALL executes its
\* instructions in increasing index order, each at most once, stops at the
\* latest after its last instruction, and ExecuteFunction on it returns (after
\* at most as many dispatches as the block has instructions).
StraightLineRunsInOrder ==
    /\ [][InOrderStep]_vars
    /\ \A d \in 1..MaxDepth : StraightLineReturns(d)

\* a nested invocation of a block of three instructions without JMP, BT, BF or
\* CALL has returned after its last instruction
StraightLineWitness ==
    /\ last.kind = "return"
    /\ execStack # <<>>
    /\ StraightLine(last.name)
    /\ Len(codeBlocks[last.name].instructions) = 3
    /\ last.idx = 3

(***************************************************************************)
(* Three comparisons in one block: the results of the first two are kept   *)
(* in the globals x and y, the third is left on the operand stack          *)
(***************************************************************************)
\* ops are three comparison opcodes, ps the three pairs of operands
Compare3(name, ops, ps) ==
    CodeBlock(name,
        <<I1("PUSH", ps[1][1]), I1("PUSH", ps[1][2]), I0(ops[1]), IS("POP", X),
          I1("PUSH", ps[2][1]), I1("PUSH", ps[2][2]), I0(ops[2]), IS("POP", Y),
          I1("PUSH", ps[3][1]), I1("PUSH", ps[3][2]), I0(ops[3])>>)

\* a OP b, b OP c and a OP c for TEQ and for TLT; a < b, a == b and a > b
RelationBlocks ==
    {Compare3(F, <<op, op, op>>, <<<<a, b>>, <<b, c>>, <<a, c>>>>) :
        op \in {"TEQ", "TLT"}, a \in OperandVals, b \in OperandVals, c \in OperandVals}
    \cup {Compare3(F, <<"TLT", "TEQ", "TGT">>, <<<<a, b>>, <<a, b>>, <<a, b>>>>) :
             a \in OperandVals, b \in OperandVals}

InitRelations ==
    /\ \E block \in RelationBlocks :
          /\ library = {block}
          /\ codeBlocks = Upsert(<<>>, block)
    /\ stack = <<>>
    /\ callStack = <<>>
    /\ globals = <<>>
    /\ currentCode = <<>>
    /\ instructionPointer = 0
    /\ execStack = <<>>
    /\ last = Event("add", F, 0, Boolean(FALSE))
    /\ twin = NoTwin

SpecRelations == InitRelations /\ [][NextOps]_vars

\* the block has run: its operands, opcodes and the three results
Compared == last.kind = "return"

OperandA == codeBlocks[F].instructions[1].operand1

OperandB == codeBlocks[F].instructions[2].operand1

OperandC == codeBlocks[F].instructions[10].operand1

AllThree(op) == \A i \in {3, 7, 11} : codeBlocks[F].instructions[i].op = op

Holds(v) == v = Num(1)

\* how many of a, b and c are Strings
StringsAmong == Cardinality({i \in {1, 2, 10} : IsString(codeBlocks[F].instructions[i].operand1)})

\* C34 as stated: Value equality (TEQ) is an equivalence relation over all
\* Values, also across mixed kinds: reflexive, symmetric and transitive.
EqualityIsEquivalence ==
    Compared /\ AllThree("TEQ")
    => /\ OperandA = OperandB => Holds(globals[X])
       /\ OperandA = OperandC => globals[X] = globals[Y]
       /\ Holds(globals[X]) /\ Holds(globals[Y]) => Holds(Back(stack))

\* C34, amended: Value equality (TEQ) is symmetric over all Values, reflexive
\* on every Value but a Number that is NaN, and transitive (a == b and b == c
\* imply a == c) unless a and c are both Strings and b is not.
EqualityIsPartialEquivalence ==
    Compared /\ AllThree("TEQ")
    => /\ OperandA = OperandB /\ OperandA # Number(NaN) => Holds(globals[X])
       /\ OperandA = OperandC => globals[X] = globals[Y]
       /\ Holds(globals[X]) /\ Holds(globals[Y])
          /\ ~(IsString(OperandA) /\ IsString(OperandC) /\ ~IsString(OperandB))
          => Holds(Back(stack))

\* false == 0, 0 == undefined and false == undefined have been found
EqualityWitness ==
    /\ Compared /\ AllThree("TEQ")
    /\ OperandA = Boolean(FALSE) /\ OperandB = Num(0) /\ OperandC = Undefined
    /\ Holds(globals[X]) /\ Holds(globals[Y]) /\ Holds(Back(stack))

\* exactly one of a < b, a == b and a > b has been found
ExactlyOne ==
    Cardinality({v \in {<<1, globals[X]>>, <<2, globals[Y]>>, <<3, Back(stack)>>} :
                    Holds(v[2])}) = 1

Trichotomy ==
    /\ Compared
    /\ codeBlocks[F].instructions[3].op = "TLT"
    /\ codeBlocks[F].instructions[7].op = "TEQ"
    => ExactlyOne

\* C35 as stated: Value ordering (TLT) is a strict order over all Values,
\* also across mixed kinds: irreflexive and transitive, and for all a, b
\* exactly one of a < b, a == b, a > b holds.
OrderingIsStrict ==
    /\ Compared /\ AllThree("TLT")
       => /\ OperandA = OperandB => ~Holds(globals[X])
          /\ Holds(globals[X]) /\ Holds(globals[Y]) => Holds(Back(stack))
    /\ Trichotomy

\* C35, amended: Value ordering (TLT) is irreflexive over all Values, for all
\* a, b exactly one of a < b, a == b, a > b holds, and it is transitive (a < b
\* and b < c imply a < c) when a, b and c are all Strings or at most one of
\* them is a String.
OrderingIsStrictWithinMode ==
    /\ Compared /\ AllThree("TLT")
       => /\ OperandA = OperandB => ~Holds(globals[X])
          /\ Holds(globals[X]) /\ Holds(globals[Y]) /\ StringsAmong # 2
             => Holds(Back(stack))
    /\ Trichotomy

\* false < 1/2, 1/2 < "12" and false < "12" have been found
OrderingWitness ==
    /\ Compared /\ AllThree("TLT")
    /\ OperandA = Boolean(FALSE) /\ OperandB = Number(MkReal(1, 2))
    /\ OperandC = String(<<"1", "2">>)
    /\ Holds(globals[X]) /\ Holds(globals[Y]) /\ Holds(Back(stack))

(***************************************************************************)
(* The code-block table during execution                                   *)
(***************************************************************************)
\* a step of ExecuteFunction or of Execute's loop, not one of a load
ExecutionStep == last'.kind \notin {"add", "load"}

TableUnchanged ==
    /\ DOMAIN codeBlocks' = DOMAIN codeBlocks
    /\ \A n \in DOMAIN codeBlocks :
          codeBlocks'[n].instructions = codeBlocks[n].instructions

\* C36: executing code never changes the code-block table: over every
\* dispatched opcode and every step of an ExecuteFunction call (not found,
\* entered, nested, returned) the set of loaded names and each block's
\* instruction sequence stay the same; the table changes only in
\* AddCodeBlock and LoadCodeBlocks, which run while nothing executes.
ExecutionKeepsCodeBlocks ==
    [][/\ ExecutionStep => TableUnchanged
       /\ codeBlocks' # codeBlocks
          => last'.kind \in {"add", "load"} /\ execStack = <<>> /\ execStack' = <<>>]_vars

\* g has called f and returned to the host with all three blocks loaded, a
\* global written and a missing name looked up before
TableWitness ==
    /\ last.kind = "return" /\ last.name = G /\ execStack = <<>>
    /\ DOMAIN codeBlocks = FunctionNames
    /\ globals # <<>> /\ stack # <<>>

====
